---- MODULE Spec2Model ----
(***************************************************************************)
(* Model of the fashion-search query path:                                 *)
(*   app/main.py                    semantic_search (the /search endpoint)  *)
(*   app/services/search_service.py SearchService.search, _rank_items,      *)
(*                                  _extract_filter_from_prompt,            *)
(*                                  _generate_llm_recommendation            *)
(*   app/services/query_service.py  QueryService.query_postgres             *)
(*   app/services/embedding_service.py EmbeddingService                     *)
(*                                                                         *)
(* Numbers.  Python floats are modelled by exact fractions:                *)
(*   cosine_distance  = dist / DistScale                                   *)
(*   average_rating   = rating / RatingScale                               *)
(*   weights          = w / WeightScale                                    *)
(*   np.log1p(n)      = Log1pMilli(n) / 1000                               *)
(* and a score is a record [nan, num, den] standing for num / den, or for  *)
(* the float NaN when nan is TRUE.                                         *)
(***************************************************************************)
EXTENDS Integers, Sequences, FiniteSets, TLC

VARIABLES
    service,            \* SearchService fields set by __init__
    pc,                 \* per request: position inside semantic_search/search
    prompt,             \* per request: request.prompt
    filter_expression,  \* per request: local of search()
    is_fashion_related, \* per request: local of search()
    query_embedding,    \* per request: local of search()
    rpc_params,         \* per request: argument of supabase_client.rpc(...)
    unranked_results,   \* per request: unranked_results['response']
    ranked_response,    \* per request: local of search()
    rec_args,           \* per request: what the recommendation LLM was given
    result,             \* per request: the dict search() returned, if any
    error,              \* per request: the exception search() raised, if any
    calls               \* per request: log of collaborator call/return events

vars == << service, pc, prompt, filter_expression, is_fashion_related,
           query_embedding, rpc_params, unranked_results, ranked_response,
           rec_args, result, error, calls >>

----------------------------------------------------------------------------
(* Bounds of the model *)

\* longest candidate list the similarity store returns in the model
MaxItems == 5

\* longest candidate list given to _rank_items in the ranking specification
MaxRankItems == 3

\* longest candidate list the store returns when requests run concurrently
MaxConcItems == 1

\* largest min_ratings argument of _rank_items the properties range over
MaxMinRatings == 3

----------------------------------------------------------------------------
(* Program constants *)

\* search(): "if len(ranked_response) < 5"
MinResults == 5

\* query_postgres(): "match_threshold": 0.3, in tenths
MatchThreshold == 3

\* query_postgres(): "match_count": 10
MatchCount == 10

\* _rank_items defaults, in tenths: similarity_weight = 0.7
SimilarityWeight == 7

\* rating_weight = 0.2
RatingWeight == 2

\* popularity_weight = 0.1
PopularityWeight == 1

\* min_ratings = 1
MinRatings == 1

\* "average_rating / 5.0"
RatingMax == 5

\* denominators of the fixed-point inputs
WeightScale == 10
DistScale == 20
RatingScale == 2

----------------------------------------------------------------------------
(* Python values *)

\* None / a present value
None == << >>
Some(x) == << x >>

OutOfDomainWarning == "Looks like you're searching for something outside of fashion! Try asking about clothing, accessories, or fashion items instead."

BroadenWarning == "Not many items were found. Try broadening your search!"

FlagKey == "is_related_to_fashion"

\* dict.pop(key) / a dict without one key
DictWithout(d, k) == [x \in (DOMAIN d) \ {k} |-> d[x]]

\* dict union "a | b": keys of b win
DictMerge(a, b) ==
    [x \in (DOMAIN a) \cup (DOMAIN b) |-> IF x \in DOMAIN b THEN b[x] ELSE a[x]]

----------------------------------------------------------------------------
(* SearchService._rank_items *)

\* np.log1p(n) in thousandths, for the rating counts the model uses
Log1pMilli(n) ==
    CASE n = 0  -> 0
      [] n = 1  -> 693
      [] n = 2  -> 1099
      [] n = 3  -> 1386
      [] n = 4  -> 1609
      [] n = 5  -> 1792
      [] n = 50 -> 3932
      [] n = 51 -> 3951

\* Python max() over a non-empty collection of integers
MaxOf(S) == CHOOSE m \in S : \A x \in S : x <= m

\* a Python value or a raised exception
Value(v) == [raised |-> FALSE, value |-> v]
Raised == [raised |-> TRUE, value |-> 0]

\* MaxRatings without the "if items else 1" guard: max() of an empty
\* iterable raises ValueError
MaxRatingsUnguarded(items) ==
    IF Len(items) > 0
    THEN IF \E i \in 1..Len(items) : "rating_number" \notin DOMAIN items[i]
         THEN Raised
         ELSE Value(MaxOf({ items[i].rating_number : i \in 1..Len(items) }))
    ELSE Raised

\* "max(item['rating_number'] for item in items) if items else 1"
\* (max() of an empty iterable would raise ValueError; the conditional
\* expression keeps it from being evaluated; item['rating_number'] raises
\* KeyError for a dict without that key)
MaxRatings(items) ==
    IF Len(items) > 0
    THEN IF \E i \in 1..Len(items) : "rating_number" \notin DOMAIN items[i]
         THEN Raised
         ELSE Value(MaxOf({ items[i].rating_number : i \in 1..Len(items) }))
    ELSE Value(1)

\* Similarity without the "1 -": the distance itself
SimilarityUnflipped(item) == item.cosine_distance

\* "similarity = 1 - item['cosine_distance']", over DistScale
Similarity(item) == DistScale - item.cosine_distance

\* Confidence without the "min(..., 1)" cap
ConfidenceUncapped(item, min_ratings) == item.rating_number

\* "confidence = min(item['rating_number'] / min_ratings, 1)", over min_ratings
Confidence(item, min_ratings) ==
    IF item.rating_number < min_ratings THEN item.rating_number ELSE min_ratings

\* "rating_score = average_rating_normalized * confidence",
\* over RatingScale * RatingMax * min_ratings
RatingScore(item, min_ratings) ==
    item.average_rating * Confidence(item, min_ratings)

\* "popularity_score = np.log1p(item['rating_number']) / np.log1p(max_ratings)"
\* numpy float division: 0.0 / 0.0 is nan (a RuntimeWarning, no exception)
PopularityScore(item, max_ratings) ==
    IF Log1pMilli(max_ratings) = 0 /\ Log1pMilli(item.rating_number) = 0
    THEN [nan |-> TRUE, num |-> 0, den |-> 0]
    ELSE [nan |-> FALSE,
          num |-> Log1pMilli(item.rating_number),
          den |-> Log1pMilli(max_ratings)]

\* "final_score = similarity_weight * similarity + rating_weight * rating_score
\*                + popularity_weight * popularity_score"
\* as one fraction; a nan term makes the sum nan
FinalScore(item, max_ratings, similarity_weight, rating_weight, popularity_weight, min_ratings) ==
    LET pop  == PopularityScore(item, max_ratings)
        rden == RatingScale * RatingMax * min_ratings
    IN  IF pop.nan
        THEN [nan |-> TRUE, num |-> 0, den |-> 0]
        ELSE [nan |-> FALSE,
              num |-> similarity_weight * Similarity(item) * rden * pop.den
                      + rating_weight * RatingScore(item, min_ratings)
                          * DistScale * pop.den
                      + popularity_weight * pop.num * DistScale * rden,
              den |-> WeightScale * DistScale * rden * pop.den]

\* float "<" on two scores of one _rank_items call (equal denominators);
\* every comparison with nan is False
ScoreLess(a, b) == ~a.nan /\ ~b.nan /\ a.num < b.num

\* "item_with_score = item.copy(); item_with_score['score'] = final_score"
ItemWithScore(item, final_score) ==
    [k \in (DOMAIN item) \cup {"score"} |->
        IF k = "score" THEN final_score ELSE item[k]]

\* ScoredItems leaving out the items whose similarity is negative
ScoredItemsNonNegative(items, max_ratings, similarity_weight, rating_weight, popularity_weight, min_ratings) ==
    LET kept == SelectSeq(items, LAMBDA item : Similarity(item) >= 0)
    IN  [i \in 1..Len(kept) |->
            ItemWithScore(kept[i],
                FinalScore(kept[i], max_ratings, similarity_weight,
                           rating_weight, popularity_weight, min_ratings))]

\* the for loop of _rank_items: ranked_items in input order
ScoredItems(items, max_ratings, similarity_weight, rating_weight, popularity_weight, min_ratings) ==
    [i \in 1..Len(items) |->
        ItemWithScore(items[i],
            FinalScore(items[i], max_ratings, similarity_weight,
                       rating_weight, popularity_weight, min_ratings))]

\* one step of the stable descending sort: x goes before the first element
\* whose score is smaller than its own, after all others
InsertDesc(out, x) ==
    LET smaller == { j \in 1..Len(out) : ScoreLess(out[j].score, x.score) }
        pos     == IF smaller = {} THEN Len(out) + 1
                   ELSE CHOOSE j \in smaller : \A k \in smaller : j <= k
    IN  SubSeq(out, 1, pos - 1) \o << x >> \o SubSeq(out, pos, Len(out))

RECURSIVE SortFrom(_, _, _)
SortFrom(scored, i, out) ==
    IF i > Len(scored) THEN out
    ELSE SortFrom(scored, i + 1, InsertDesc(out, scored[i]))

\* "sorted(ranked_items, key=lambda x: x['score'], reverse=True)"
SortedByScoreDesc(scored) == SortFrom(scored, 1, << >>)

\* the keys _rank_items reads with item[...]: lines 183, 188, 191, 195, 202
HasKeys(item) ==
    {"cosine_distance", "average_rating", "rating_number"} \subseteq DOMAIN item

\* RankItemsWith skipping the dicts that lack a key
RankItemsWithSkipping(items, similarity_weight, rating_weight, popularity_weight, min_ratings) ==
    LET good == SelectSeq(items, HasKeys)
    IN  Value(SortedByScoreDesc(
            ScoredItems(good, MaxRatings(good).value, similarity_weight,
                        rating_weight, popularity_weight, min_ratings)))

\* _rank_items(items, similarity_weight, rating_weight, popularity_weight,
\*             min_ratings): the sorted list, or an exception (ValueError
\* from max(), KeyError from item[...] in the loop)
RankItemsWith(items, similarity_weight, rating_weight, popularity_weight, min_ratings) ==
    LET max_ratings == MaxRatings(items)
    IN  IF max_ratings.raised THEN Raised
        ELSE IF \E i \in 1..Len(items) : ~HasKeys(items[i]) THEN Raised
        ELSE Value(SortedByScoreDesc(
                 ScoredItems(items, max_ratings.value, similarity_weight,
                             rating_weight, popularity_weight, min_ratings)))

\* _rank_items(items) as search() calls it, with the default arguments
RankItems(items) ==
    RankItemsWith(items, SimilarityWeight, RatingWeight, PopularityWeight,
                  MinRatings)

----------------------------------------------------------------------------
(* Inputs: what callers and collaborators can hand to the service *)

\* requests the endpoint can be serving
Requests == {"r1", "r2"}

\* request.prompt
Prompts == {"red summer dress", "what's the weather today"}

\* response.output_text of the filter LLM: not JSON at all, or a JSON object;
\* json.loads accepts any keys, the names of the RPC's own parameters included
ExtractReplies ==
    { [ok |-> FALSE] } \cup
    { [ok |-> TRUE, obj |-> o] : o \in
        { [is_related_to_fashion |-> TRUE],
          [is_related_to_fashion |-> TRUE, category |-> "Dresses"],
          [is_related_to_fashion |-> FALSE],
          [is_related_to_fashion |-> FALSE, category |-> "Dresses"],
          [is_related_to_fashion |-> TRUE, match_threshold |-> 9,
           match_count |-> 50, prompt_embedding |-> "vec9"],
          [category |-> "Dresses"] } }

\* response.data[0].embedding
Embeddings == {"vec1", "vec2"}

\* a row of get_fashion_items
Item(t, d, r, c) ==
    [title |-> t, cosine_distance |-> d, average_rating |-> r,
     rating_number |-> c]

Titles == << "t1", "t2", "t3", "t4", "t5", "t6", "t7", "t8" >>

\* every list of at most n rows whose i-th row has the i-th title and
\* (distance, rating, count) drawn from shapes
ItemLists(n, shapes) ==
    UNION { { [i \in 1..k |-> Item(Titles[i], f[i][1], f[i][2], f[i][3])] :
              f \in [1..k -> shapes] } : k \in 0..n }

\* (cosine_distance, average_rating, rating_number) of the rows the store
\* returns: 0.1 / 4.0 / 50, 0.05 / 2.0 / 1, 0.2 / 3.0 / 0
StoreShapes == { << 2, 8, 50 >>, << 1, 4, 1 >>, << 4, 6, 0 >> }

\* response.data of the get_fashion_items RPC
RetrieveResults == ItemLists(MaxItems, StoreShapes)

\* response.output_text of the recommendation LLM
RecommendReplies ==
    { [ok |-> FALSE],
      [ok |-> TRUE, obj |-> [response |-> "A red wrap dress suits summer."]],
      [ok |-> TRUE, obj |-> [text |-> "A red wrap dress suits summer."]] }

----------------------------------------------------------------------------
(* SearchService.search and its collaborators, one request frame each *)

Upd(f, s, v) == [f EXCEPT ![s] = v]

Logged(s, ev) == [calls EXCEPT ![s] = Append(@, ev)]

\* an exception leaves search(): nothing is returned
Raise(s, who) ==
    /\ pc' = Upd(pc, s, "failed")
    /\ error' = Upd(error, s, who)
    /\ calls' = Logged(s, << "raise", who >>)

\* OutOfDomainResult with an empty dict as "filters"
OutOfDomainResultNoFilters(filters) ==
    [recommendation |-> None,
     warnings |-> << OutOfDomainWarning >>,
     response |-> None,
     filters |-> << >>]

\* search(): the dict returned when the query is not fashion-related
OutOfDomainResult(filters) ==
    [recommendation |-> None,
     warnings |-> << OutOfDomainWarning >>,
     response |-> None,
     filters |-> filters]

\* SparseWarnings with "<=" in place of "<"
SparseWarningsAtMost(ranked) ==
    IF Len(ranked) <= MinResults THEN << BroadenWarning >> ELSE << >>

\* search(): "warnings = []; if len(ranked_response) < 5: warnings.append(...)"
SparseWarnings(ranked) ==
    IF Len(ranked) < MinResults THEN << BroadenWarning >> ELSE << >>

\* CompleteResult with "ranked_response or None" as the response
CompleteResultNullWhenEmpty(ranked, recommendation, filters) ==
    [response |-> IF Len(ranked) = 0 THEN None ELSE Some(ranked),
     recommendation |-> Some(recommendation),
     warnings |-> SparseWarnings(ranked),
     filters |-> filters]

\* search(): the dict returned at the end of the pipeline
CompleteResult(ranked, recommendation, filters) ==
    [response |-> Some(ranked),
     recommendation |-> Some(recommendation),
     warnings |-> SparseWarnings(ranked),
     filters |-> filters]

\* query_postgres(): the parameter dict of the get_fashion_items RPC
RpcParams(prompt_embedding, filters) ==
    DictMerge([prompt_embedding |-> prompt_embedding,
               match_threshold |-> MatchThreshold,
               match_count |-> MatchCount],
              filters)

\* _generate_llm_recommendation(): "[item['title'] for item in item_results]"
ItemTitles(item_results) ==
    [i \in 1..Len(item_results) |-> item_results[i].title]

Init ==
    /\ service = [openai_client |-> "openai_client",
                  embedding_service |-> "embedding_service",
                  query_service |-> "query_service"]
    /\ pc = [s \in Requests |-> "idle"]
    /\ prompt = [s \in Requests |-> ""]
    /\ filter_expression = [s \in Requests |-> << >>]
    /\ is_fashion_related = [s \in Requests |-> FALSE]
    /\ query_embedding = [s \in Requests |-> ""]
    /\ rpc_params = [s \in Requests |-> << >>]
    /\ unranked_results = [s \in Requests |-> << >>]
    /\ ranked_response = [s \in Requests |-> << >>]
    /\ rec_args = [s \in Requests |-> None]
    /\ result = [s \in Requests |-> None]
    /\ error = [s \in Requests |-> "none"]
    /\ calls = [s \in Requests |-> << >>]

\* Search in the order of search()'s docstring: the embedding first
SearchEmbedFirst(s, p) ==
    /\ pc[s] = "idle"
    /\ pc' = Upd(pc, s, "embed")
    /\ prompt' = Upd(prompt, s, p)
    /\ UNCHANGED << service, filter_expression, is_fashion_related,
                    query_embedding, rpc_params, unranked_results,
                    ranked_response, rec_args, result, error, calls >>

\* main.semantic_search: "search_service.search(request.prompt)"
Search(s, p) ==
    /\ pc[s] = "idle"
    /\ pc' = Upd(pc, s, "extract")
    /\ prompt' = Upd(prompt, s, p)
    /\ UNCHANGED << service, filter_expression, is_fashion_related,
                    query_embedding, rpc_params, unranked_results,
                    ranked_response, rec_args, result, error, calls >>

\* search() line 69 -> _extract_filter_from_prompt: the LLM call is made
CallExtract(s) ==
    /\ pc[s] = "extract"
    /\ pc' = Upd(pc, s, "in_extract")
    /\ calls' = Logged(s, << "call", "extractFilter" >>)
    /\ UNCHANGED << service, prompt, filter_expression, is_fashion_related,
                    query_embedding, rpc_params, unranked_results,
                    ranked_response, rec_args, result, error >>

\* openai_client.responses.create raises inside _extract_filter_from_prompt
ExtractRaises(s) ==
    /\ pc[s] = "in_extract"
    /\ Raise(s, "extractFilter")
    /\ UNCHANGED << service, prompt, filter_expression, is_fashion_related,
                    query_embedding, rpc_params, unranked_results,
                    ranked_response, rec_args, result >>

\* ExtractReturns without the "if not is_fashion_related" return
ExtractReturnsNoShortCircuit(s, reply) ==
    /\ pc[s] = "in_extract"
    /\ IF ~reply.ok \/ FlagKey \notin DOMAIN reply.obj
       THEN /\ Raise(s, "extractFilter")
            /\ UNCHANGED << filter_expression, is_fashion_related >>
       ELSE /\ filter_expression' =
                   Upd(filter_expression, s, DictWithout(reply.obj, FlagKey))
            /\ is_fashion_related' =
                   Upd(is_fashion_related, s, reply.obj[FlagKey])
            /\ calls' = Logged(s, << "return", "extractFilter" >>)
            /\ error' = error
            /\ pc' = Upd(pc, s, "embed")
    /\ UNCHANGED << service, prompt, query_embedding, rpc_params,
                    unranked_results, ranked_response, rec_args, result >>

\* the filter LLM answers: json.loads, ['is_related_to_fashion'], pop, and
\* the "if not is_fashion_related" branch of search()
ExtractReturns(s, reply) ==
    /\ pc[s] = "in_extract"
    /\ IF ~reply.ok \/ FlagKey \notin DOMAIN reply.obj
       THEN /\ Raise(s, "extractFilter")
            /\ UNCHANGED << filter_expression, is_fashion_related, result >>
       ELSE LET filters == DictWithout(reply.obj, FlagKey)
                flag    == reply.obj[FlagKey]
            IN  /\ filter_expression' = Upd(filter_expression, s, filters)
                /\ is_fashion_related' = Upd(is_fashion_related, s, flag)
                /\ calls' = Logged(s, << "return", "extractFilter" >>)
                /\ error' = error
                /\ IF ~flag
                   THEN /\ result' = Upd(result, s,
                                         Some(OutOfDomainResult(filters)))
                        /\ pc' = Upd(pc, s, "done")
                   ELSE /\ result' = result
                        /\ pc' = Upd(pc, s, "embed")
    /\ UNCHANGED << service, prompt, query_embedding, rpc_params,
                    unranked_results, ranked_response, rec_args >>

\* search() line 82: embedding_service.generate_prompt_embedding(prompt)
CallEmbed(s) ==
    /\ pc[s] = "embed"
    /\ pc' = Upd(pc, s, "in_embed")
    /\ calls' = Logged(s, << "call", "embed" >>)
    /\ UNCHANGED << service, prompt, filter_expression, is_fashion_related,
                    query_embedding, rpc_params, unranked_results,
                    ranked_response, rec_args, result, error >>

\* openai_client.embeddings.create raises inside generate_prompt_embedding
EmbedRaises(s) ==
    /\ pc[s] = "in_embed"
    /\ Raise(s, "embed")
    /\ UNCHANGED << service, prompt, filter_expression, is_fashion_related,
                    query_embedding, rpc_params, unranked_results,
                    ranked_response, rec_args, result >>

\* generate_prompt_embedding returns response.data[0].embedding
EmbedReturns(s, e) ==
    /\ pc[s] = "in_embed"
    /\ query_embedding' = Upd(query_embedding, s, e)
    /\ pc' = Upd(pc, s, "query")
    /\ calls' = Logged(s, << "return", "embed" >>)
    /\ UNCHANGED << service, prompt, filter_expression, is_fashion_related,
                    rpc_params, unranked_results, ranked_response, rec_args,
                    result, error >>

\* search() line 85: query_service.query_postgres(query_embedding,
\* filter_expression) sends the RPC
CallRetrieve(s) ==
    /\ pc[s] = "query"
    /\ rpc_params' = Upd(rpc_params, s,
                         RpcParams(query_embedding[s], filter_expression[s]))
    /\ pc' = Upd(pc, s, "in_query")
    /\ calls' = Logged(s, << "call", "retrieve" >>)
    /\ UNCHANGED << service, prompt, filter_expression, is_fashion_related,
                    query_embedding, unranked_results, ranked_response,
                    rec_args, result, error >>

\* RetrieveRaises with the exception caught and an empty list used instead
RetrieveRaisesAsEmpty(s) ==
    /\ pc[s] = "in_query"
    /\ unranked_results' = Upd(unranked_results, s, << >>)
    /\ pc' = Upd(pc, s, "rank")
    /\ calls' = Logged(s, << "raise", "retrieve" >>)
    /\ UNCHANGED << service, prompt, filter_expression, is_fashion_related,
                    query_embedding, rpc_params, ranked_response, rec_args,
                    result, error >>

\* supabase_client.rpc(...).execute() raises inside query_postgres
RetrieveRaises(s) ==
    /\ pc[s] = "in_query"
    /\ Raise(s, "retrieve")
    /\ UNCHANGED << service, prompt, filter_expression, is_fashion_related,
                    query_embedding, rpc_params, unranked_results,
                    ranked_response, rec_args, result >>

\* query_postgres returns {"response": response.data}
RetrieveReturns(s, items) ==
    /\ pc[s] = "in_query"
    /\ unranked_results' = Upd(unranked_results, s, items)
    /\ pc' = Upd(pc, s, "rank")
    /\ calls' = Logged(s, << "return", "retrieve" >>)
    /\ UNCHANGED << service, prompt, filter_expression, is_fashion_related,
                    query_embedding, rpc_params, ranked_response, rec_args,
                    result, error >>

\* Rank keeping its result in a field of the shared SearchService object
\* instead of a local: every request then reads the last list written
RankShared(s) ==
    /\ pc[s] = "rank"
    /\ LET ranked == RankItems(unranked_results[s])
       IN  /\ pc' = Upd(pc, s, "recommend")
           /\ calls' = [calls EXCEPT ![s] =
                           @ \o << << "call", "rank" >>,
                                   << "return", "rank" >> >>]
           /\ ranked_response' = [t \in Requests |-> ranked.value]
    /\ UNCHANGED << service, prompt, filter_expression, is_fashion_related,
                    query_embedding, rpc_params, unranked_results, rec_args,
                    result, error >>

\* Rank without "item.copy()": the score is set on the dicts of the input list
RankInPlace(s) ==
    /\ pc[s] = "rank"
    /\ LET items  == unranked_results[s]
           ranked == RankItems(items)
       IN  /\ pc' = Upd(pc, s, "recommend")
           /\ calls' = [calls EXCEPT ![s] =
                           @ \o << << "call", "rank" >>,
                                   << "return", "rank" >> >>]
           /\ ranked_response' = Upd(ranked_response, s, ranked.value)
           /\ unranked_results' = Upd(unranked_results, s,
                  ScoredItems(items, MaxRatings(items).value,
                              SimilarityWeight, RatingWeight,
                              PopularityWeight, MinRatings))
    /\ UNCHANGED << service, prompt, filter_expression, is_fashion_related,
                    query_embedding, rpc_params, rec_args, result, error >>

\* search() line 88: self._rank_items(unranked_results['response'])
Rank(s) ==
    /\ pc[s] = "rank"
    /\ LET ranked == RankItems(unranked_results[s])
       IN  IF ranked.raised
           THEN /\ pc' = Upd(pc, s, "failed")
                /\ error' = Upd(error, s, "rank")
                /\ calls' = [calls EXCEPT ![s] =
                                @ \o << << "call", "rank" >>,
                                        << "raise", "rank" >> >>]
                /\ ranked_response' = ranked_response
           ELSE /\ pc' = Upd(pc, s, "recommend")
                /\ error' = error
                /\ calls' = [calls EXCEPT ![s] =
                                @ \o << << "call", "rank" >>,
                                        << "return", "rank" >> >>]
                /\ ranked_response' = Upd(ranked_response, s, ranked.value)
    /\ UNCHANGED << service, prompt, filter_expression, is_fashion_related,
                    query_embedding, rpc_params, unranked_results, rec_args,
                    result >>

\* search() line 91 -> _generate_llm_recommendation: the LLM call is made
CallRecommend(s) ==
    /\ pc[s] = "recommend"
    /\ rec_args' = Upd(rec_args, s,
                       Some([prompt |-> prompt[s],
                             item_titles |-> ItemTitles(ranked_response[s])]))
    /\ pc' = Upd(pc, s, "in_recommend")
    /\ calls' = Logged(s, << "call", "recommend" >>)
    /\ UNCHANGED << service, prompt, filter_expression, is_fashion_related,
                    query_embedding, rpc_params, unranked_results,
                    ranked_response, result, error >>

\* RecommendRaises with the exception caught: the ranked items are returned
\* without a recommendation and with a warning
RecommendRaisesDegraded(s) ==
    /\ pc[s] = "in_recommend"
    /\ pc' = Upd(pc, s, "done")
    /\ calls' = Logged(s, << "raise", "recommend" >>)
    /\ result' = Upd(result, s,
           Some([response |-> Some(ranked_response[s]),
                 recommendation |-> None,
                 warnings |-> SparseWarnings(ranked_response[s])
                                 \o << "No recommendation is available." >>,
                 filters |-> filter_expression[s]]))
    /\ UNCHANGED << service, prompt, filter_expression, is_fashion_related,
                    query_embedding, rpc_params, unranked_results,
                    ranked_response, rec_args, error >>

\* openai_client.responses.create raises inside _generate_llm_recommendation;
\* search() has no try/except around the call
RecommendRaises(s) ==
    /\ pc[s] = "in_recommend"
    /\ Raise(s, "recommend")
    /\ UNCHANGED << service, prompt, filter_expression, is_fashion_related,
                    query_embedding, rpc_params, unranked_results,
                    ranked_response, rec_args, result >>

\* RecommendReturns with a bad answer caught and an empty text returned
RecommendReturnsAbsorbed(s, reply) ==
    /\ pc[s] = "in_recommend"
    /\ IF ~reply.ok \/ "response" \notin DOMAIN reply.obj
       THEN /\ result' = Upd(result, s,
                   Some(CompleteResult(ranked_response[s], "",
                                       filter_expression[s])))
            /\ calls' = Logged(s, << "raise", "recommend" >>)
       ELSE /\ result' = Upd(result, s,
                   Some(CompleteResult(ranked_response[s], reply.obj.response,
                                       filter_expression[s])))
            /\ calls' = Logged(s, << "return", "recommend" >>)
    /\ pc' = Upd(pc, s, "done")
    /\ UNCHANGED << service, prompt, filter_expression, is_fashion_related,
                    query_embedding, rpc_params, unranked_results,
                    ranked_response, rec_args, error >>

\* the recommendation LLM answers: json.loads, ['response'], then lines
\* 93-104 of search()
RecommendReturns(s, reply) ==
    /\ pc[s] = "in_recommend"
    /\ IF ~reply.ok \/ "response" \notin DOMAIN reply.obj
       THEN /\ Raise(s, "recommend")
            /\ result' = result
       ELSE /\ result' = Upd(result, s,
                   Some(CompleteResult(ranked_response[s], reply.obj.response,
                                       filter_expression[s])))
            /\ pc' = Upd(pc, s, "done")
            /\ calls' = Logged(s, << "return", "recommend" >>)
            /\ error' = error
    /\ UNCHANGED << service, prompt, filter_expression, is_fashion_related,
                    query_embedding, rpc_params, unranked_results,
                    ranked_response, rec_args >>

\* main.semantic_search: the dict is sent back, or the exception becomes
\* HTTP 500; the request's frame is gone
Respond(s) ==
    /\ pc[s] \in {"done", "failed"}
    /\ pc' = Upd(pc, s, "idle")
    /\ prompt' = Upd(prompt, s, "")
    /\ filter_expression' = Upd(filter_expression, s, << >>)
    /\ is_fashion_related' = Upd(is_fashion_related, s, FALSE)
    /\ query_embedding' = Upd(query_embedding, s, "")
    /\ rpc_params' = Upd(rpc_params, s, << >>)
    /\ unranked_results' = Upd(unranked_results, s, << >>)
    /\ ranked_response' = Upd(ranked_response, s, << >>)
    /\ rec_args' = Upd(rec_args, s, None)
    /\ result' = Upd(result, s, None)
    /\ error' = Upd(error, s, "none")
    /\ calls' = Upd(calls, s, << >>)
    /\ UNCHANGED service

\* one worker: a request is taken up while no other request is in flight
Alone(s) == \A t \in Requests \ {s} : pc[t] = "idle"

Next ==
    \E s \in Requests :
        \/ \E p \in Prompts : Alone(s) /\ Search(s, p)
        \/ CallExtract(s)
        \/ ExtractRaises(s)
        \/ \E reply \in ExtractReplies : ExtractReturns(s, reply)
        \/ CallEmbed(s)
        \/ EmbedRaises(s)
        \/ \E e \in Embeddings : EmbedReturns(s, e)
        \/ CallRetrieve(s)
        \/ RetrieveRaises(s)
        \/ \E items \in RetrieveResults : RetrieveReturns(s, items)
        \/ Rank(s)
        \/ CallRecommend(s)
        \/ RecommendRaises(s)
        \/ \E reply \in RecommendReplies : RecommendReturns(s, reply)
        \/ Respond(s)

Spec == Init /\ [][Next]_vars

----------------------------------------------------------------------------
(* _rank_items on its own: the frame of one request standing at line 88 of *)
(* search(), with every candidate list of the ranking bounds              *)

\* (cosine_distance, average_rating, rating_number) of ranking inputs:
\* pairs that differ in distance only (with and without ratings), a distance
\* above 1, and counts 0, 1 and 50
RankShapes ==
    { << 2, 8, 50 >>, << 1, 8, 50 >>, << 24, 8, 50 >>,
      << 1, 4, 1 >>,  << 2, 4, 1 >>,  << 2, 4, 50 >>,
      << 2, 8, 0 >>,  << 1, 8, 0 >>,  << 2, 4, 0 >> }

RankInputs == ItemLists(MaxRankItems, RankShapes)

RankInitWith(inputs) ==
    /\ service = [openai_client |-> "openai_client",
                  embedding_service |-> "embedding_service",
                  query_service |-> "query_service"]
    /\ pc = [s \in Requests |-> IF s = "r1" THEN "rank" ELSE "idle"]
    /\ prompt = [s \in Requests |->
                    IF s = "r1" THEN "red summer dress" ELSE ""]
    /\ filter_expression = [s \in Requests |-> << >>]
    /\ is_fashion_related = [s \in Requests |-> s = "r1"]
    /\ query_embedding = [s \in Requests |-> IF s = "r1" THEN "vec1" ELSE ""]
    /\ rpc_params = [s \in Requests |->
                        IF s = "r1" THEN RpcParams("vec1", << >>) ELSE << >>]
    /\ \E items \in inputs :
           unranked_results = [s \in Requests |->
                                  IF s = "r1" THEN items ELSE << >>]
    /\ ranked_response = [s \in Requests |-> << >>]
    /\ rec_args = [s \in Requests |-> None]
    /\ result = [s \in Requests |-> None]
    /\ error = [s \in Requests |-> "none"]
    /\ calls = [s \in Requests |->
                   IF s = "r1"
                   THEN << << "call", "extractFilter" >>,
                           << "return", "extractFilter" >>,
                           << "call", "embed" >>, << "return", "embed" >>,
                           << "call", "retrieve" >>,
                           << "return", "retrieve" >> >>
                   ELSE << >>]

RankInit == RankInitWith(RankInputs)

RankNext == \E s \in Requests : Rank(s)

RankSpec == RankInit /\ [][RankNext]_vars

----------------------------------------------------------------------------
(* _rank_items on rows that lack a key: the store is not under the        *)
(* service's control and _rank_items does not validate what it is given    *)

MalformedShapes == { << 2, 8, 50 >>, << 1, 4, 1 >> }

\* the lists of 1..MaxRankItems rows in which one row lacks one of the three
\* numeric keys
MalformedInputs ==
    UNION { { [ l EXCEPT ![i] = DictWithout(l[i], k) ] :
              i \in 1..Len(l),
              k \in {"cosine_distance", "average_rating", "rating_number"} } :
            l \in ItemLists(MaxRankItems, MalformedShapes) }

MalformedInit == RankInitWith(MalformedInputs)

MalformedSpec == MalformedInit /\ [][RankNext]_vars

----------------------------------------------------------------------------
(* Concurrent requests: FastAPI runs the synchronous endpoint in a thread *)
(* pool, so calls of search() on the one SearchService interleave at      *)
(* their collaborator calls                                               *)

\* rows of the store in the concurrent specification
ConcShapes == { << 2, 8, 50 >>, << 4, 6, 0 >> }

ConcResults == ItemLists(MaxConcItems, ConcShapes)

\* answers of the filter LLM in the concurrent specification: not JSON, a
\* fashion query with a filter, a query outside fashion
ConcExtractReplies ==
    { [ok |-> FALSE],
      [ok |-> TRUE,
       obj |-> [is_related_to_fashion |-> TRUE, category |-> "Dresses"]],
      [ok |-> TRUE, obj |-> [is_related_to_fashion |-> FALSE]] }

ConcNext ==
    \E s \in Requests :
        \/ \E p \in Prompts : Search(s, p)
        \/ CallExtract(s)
        \/ ExtractRaises(s)
        \/ \E reply \in ConcExtractReplies : ExtractReturns(s, reply)
        \/ CallEmbed(s)
        \/ EmbedRaises(s)
        \/ \E e \in Embeddings : EmbedReturns(s, e)
        \/ CallRetrieve(s)
        \/ RetrieveRaises(s)
        \/ \E items \in ConcResults : RetrieveReturns(s, items)
        \/ Rank(s)
        \/ CallRecommend(s)
        \/ RecommendRaises(s)
        \/ \E reply \in RecommendReplies : RecommendReturns(s, reply)
        \/ Respond(s)

ConcSpec == Init /\ [][ConcNext]_vars

----------------------------------------------------------------------------
(* Properties *)

\* the event ev is in the call log of request s
InLog(s, ev) == \E i \in 1..Len(calls[s]) : calls[s][i] = ev

\* the string w is in the list ws
InList(w, ws) == \E i \in 1..Len(ws) : ws[i] = w

\* the events of a complete in-domain search, in order
PipelineOrder ==
    << << "call", "extractFilter" >>, << "return", "extractFilter" >>,
       << "call", "embed" >>,         << "return", "embed" >>,
       << "call", "retrieve" >>,      << "return", "retrieve" >>,
       << "call", "rank" >>,          << "return", "rank" >>,
       << "call", "recommend" >>,     << "return", "recommend" >> >>

\* the collaborators that come after who in the pipeline
LaterThan(who) ==
    CASE who = "extractFilter" -> {"embed", "retrieve", "rank", "recommend"}
      [] who = "embed"         -> {"retrieve", "rank", "recommend"}
      [] who = "retrieve"      -> {"rank", "recommend"}

\* C1: once filter extraction has returned "not fashion-related", the search
\* has made no embed, retrieve or recommend call and has returned a dict with
\* response None, recommendation None and at least one warning.
C1_OutOfDomainShortCircuit ==
    \A s \in Requests :
        (InLog(s, << "return", "extractFilter" >>) /\ ~is_fashion_related[s])
        => /\ \A who \in {"embed", "retrieve", "recommend"} :
                  ~InLog(s, << "call", who >>)
           /\ pc[s] = "done"
           /\ result[s] # None
           /\ result[s][1].response = None
           /\ result[s][1].recommendation = None
           /\ Len(result[s][1].warnings) > 0

C1_Witness ==
    \E s \in Requests :
        /\ pc[s] = "done"
        /\ InLog(s, << "return", "extractFilter" >>)
        /\ ~is_fashion_related[s]
        /\ calls[s] = << << "call", "extractFilter" >>,
                         << "return", "extractFilter" >> >>
        /\ result[s] # None

C3_FatalErrors ==
    \A s \in Requests :
        \A who \in {"extractFilter", "embed", "retrieve"} :
            InLog(s, << "raise", who >>)
            => /\ pc[s] = "failed"
               /\ error[s] = who
               /\ result[s] = None
               /\ calls[s][Len(calls[s])] = << "raise", who >>
               /\ \A later \in LaterThan(who) :
                      ~InLog(s, << "call", later >>)

C3_Witness ==
    \E s \in Requests :
        /\ pc[s] = "failed"
        /\ error[s] = "retrieve"
        /\ InLog(s, << "raise", "retrieve" >>)
        /\ result[s] = None

\* C4 as stated: when the recommend call has failed after ranking, search
\* has returned a dict that carries the ranked items, has recommendation None
\* and has a warning.
C4_Original ==
    \A s \in Requests :
        InLog(s, << "raise", "recommend" >>)
        => /\ result[s] # None
           /\ result[s][1].response = Some(ranked_response[s])
           /\ result[s][1].recommendation = None
           /\ Len(result[s][1].warnings) > 0

\* C4: when the recommend call has failed after ranking has succeeded, the
\* search has failed with that error and has returned no dict: the ranked
\* items are not returned.
C4_RecommendFailureIsFatal ==
    \A s \in Requests :
        InLog(s, << "raise", "recommend" >>)
        => /\ InLog(s, << "return", "rank" >>)
           /\ pc[s] = "failed"
           /\ error[s] = "recommend"
           /\ result[s] = None

C4_Witness ==
    \E s \in Requests :
        /\ InLog(s, << "raise", "recommend" >>)
        /\ Len(ranked_response[s]) > 0
        /\ pc[s] = "failed"

\* C5: when the recommend call has failed, either the search has failed with
\* that error and returned nothing, or it has returned a dict whose
\* recommendation is None and whose warnings explain it; never a dict with a
\* recommendation or without such a warning.
C5_NoMisleadingSuccess ==
    \A s \in Requests :
        InLog(s, << "raise", "recommend" >>)
        => \/ /\ pc[s] = "failed"
              /\ error[s] = "recommend"
              /\ result[s] = None
           \/ /\ result[s] # None
              /\ result[s][1].recommendation = None
              /\ \E i \in 1..Len(result[s][1].warnings) :
                     result[s][1].warnings[i] # BroadenWarning

C5_Witness ==
    \E s \in Requests :
        /\ InLog(s, << "raise", "recommend" >>)
        /\ error[s] = "recommend"
        /\ result[s] = None
        /\ rec_args[s] # None

\* C6: an in-domain search that has returned carries the broaden-your-search
\* warning exactly when its ranked list has fewer than 5 items (0 items:
\* present, 5 items: absent).
C6_SparseWarningIff ==
    \A s \in Requests :
        (pc[s] = "done" /\ is_fashion_related[s])
        => /\ result[s] # None
           /\ result[s][1].response = Some(ranked_response[s])
           /\ (InList(BroadenWarning, result[s][1].warnings)
                 <=> Len(ranked_response[s]) < 5)

C6_Witness ==
    \E s \in Requests :
        /\ pc[s] = "done"
        /\ is_fashion_related[s]
        /\ Len(ranked_response[s]) = 5
        /\ result[s] # None
        /\ result[s][1].warnings = << >>

\* C7: after retrieve has returned an empty list the search does not fail
\* unless recommend fails, and once recommend has returned the search has
\* returned a dict whose response is the empty list, not None, and whose
\* warnings contain the broaden-your-search warning.
C7_EmptyRetrieval ==
    \A s \in Requests :
        (InLog(s, << "return", "retrieve" >>) /\ unranked_results[s] = << >>)
        => /\ error[s] \in {"none", "recommend"}
           /\ (InLog(s, << "return", "recommend" >>)
                 => /\ pc[s] = "done"
                    /\ result[s] # None
                    /\ result[s][1].response # None
                    /\ result[s][1].response = Some(<< >>)
                    /\ InList(BroadenWarning, result[s][1].warnings))

C7_Witness ==
    \E s \in Requests :
        /\ pc[s] = "done"
        /\ InLog(s, << "return", "retrieve" >>)
        /\ unranked_results[s] = << >>
        /\ InLog(s, << "return", "recommend" >>)
        /\ result[s] # None
        /\ result[s][1].response = Some(<< >>)

\* C8: _rank_items called with the empty list raises nothing and returns the
\* empty list.
C8_RankEmpty ==
    \A s \in Requests :
        (InLog(s, << "call", "rank" >>) /\ unranked_results[s] = << >>)
        => /\ ~InLog(s, << "raise", "rank" >>)
           /\ InLog(s, << "return", "rank" >>)
           /\ error[s] # "rank"
           /\ ranked_response[s] = << >>

C8_Witness ==
    \E s \in Requests :
        /\ unranked_results[s] = << >>
        /\ InLog(s, << "return", "rank" >>)
        /\ pc[s] = "recommend"
        /\ ranked_response[s] = << >>

\* C9 as stated: in every _rank_items call, each candidate with a rating
\* count >= 0 has a popularity score that is a number between 0 and 1, and
\* it is 1 exactly for the candidates whose count is maxRatingCount
\* = max(largest count of the call, 1).
C9_PopularityBounded ==
    \A s \in Requests :
        InLog(s, << "call", "rank" >>)
        => \A i \in 1..Len(unranked_results[s]) :
               LET item    == unranked_results[s][i]
                   largest == MaxRatings(unranked_results[s]).value
                   maxRatingCount == IF largest > 1 THEN largest ELSE 1
                   pop     == PopularityScore(item, largest)
               IN  item.rating_number >= 0
                   => /\ ~pop.nan
                      /\ pop.den > 0
                      /\ 0 <= pop.num
                      /\ pop.num <= pop.den
                      /\ (pop.num = pop.den
                            <=> item.rating_number = maxRatingCount)

\* C10 as stated: in one _rank_items call with the default (positive)
\* similarity weight, of two candidates with equal average rating and equal
\* rating count the one with the strictly smaller distance has the strictly
\* higher score, also when every rating count is 0.
C10_SimilarityMonotone ==
    \A s \in Requests :
        InLog(s, << "return", "rank" >>)
        => \A i, j \in 1..Len(ranked_response[s]) :
               LET a == ranked_response[s][i]
                   b == ranked_response[s][j]
               IN  ( /\ a.average_rating = b.average_rating
                     /\ a.rating_number = b.rating_number
                     /\ a.cosine_distance < b.cosine_distance )
                   => ScoreLess(b.score, a.score)


\* C11: for every min_ratings in 1..MaxMinRatings and every candidate of a
\* ranked call: a rating count >= min_ratings gives confidence exactly 1
\* (min_ratings / min_ratings) and rating score average_rating / 5, the same
\* for any larger count with the same average; a rating count of 0 gives
\* confidence 0 and rating score 0 whatever the average.
C11_ConfidenceCap ==
    \A s \in Requests :
        InLog(s, << "return", "rank" >>)
        => \A m \in 1..MaxMinRatings :
             \A i, j \in 1..Len(unranked_results[s]) :
               LET a == unranked_results[s][i]
                   b == unranked_results[s][j]
               IN  /\ a.rating_number >= m
                        => /\ Confidence(a, m) = m
                           /\ RatingScore(a, m) = a.average_rating * m
                   /\ ( /\ a.rating_number >= m
                        /\ b.rating_number > a.rating_number
                        /\ b.average_rating = a.average_rating )
                        => RatingScore(b, m) = RatingScore(a, m)
                   /\ a.rating_number = 0
                        => /\ Confidence(a, m) = 0
                           /\ RatingScore(a, m) = 0

C11_Witness ==
    \E s \in Requests :
        /\ InLog(s, << "return", "rank" >>)
        /\ \E i, j, k \in 1..Len(unranked_results[s]) :
               /\ unranked_results[s][i].rating_number = 1
               /\ unranked_results[s][j].rating_number = 50
               /\ unranked_results[s][i].average_rating
                    = unranked_results[s][j].average_rating
               /\ unranked_results[s][k].rating_number = 0
               /\ unranked_results[s][k].average_rating > 0


\* C12: a _rank_items call leaves its input list as it was (same items, same
\* fields, no score key), and every item it returns is the input item of the
\* same title with all its fields unchanged and the one key "score" added.
C12_RankLeavesInput ==
    [][ \A s \in Requests :
          (pc[s] = "rank" /\ pc'[s] # "rank")
          => /\ unranked_results'[s] = unranked_results[s]
             /\ \A j \in 1..Len(unranked_results'[s]) :
                    "score" \notin DOMAIN unranked_results'[s][j]
             /\ pc'[s] = "recommend"
                  => /\ Len(ranked_response'[s]) = Len(unranked_results[s])
                     /\ \A i \in 1..Len(ranked_response'[s]) :
                          LET out == ranked_response'[s][i]
                          IN  /\ DOMAIN out =
                                   {"title", "cosine_distance",
                                    "average_rating", "rating_number",
                                    "score"}
                              /\ \E j \in 1..Len(unranked_results[s]) :
                                     DictWithout(out, "score")
                                       = unranked_results[s][j]
      ]_vars

C12_Witness ==
    \E s \in Requests :
        /\ InLog(s, << "return", "rank" >>)
        /\ Len(ranked_response[s]) = Len(unranked_results[s])
        /\ Len(ranked_response[s]) >= 2
        /\ ranked_response[s][1].title # unranked_results[s][1].title
        /\ "score" \notin DOMAIN unranked_results[s][1]
        /\ "score" \in DOMAIN ranked_response[s][1]


\* float ">=" and "==" on two scores of one call; False when either is nan
ScoreGeq(a, b) == ~a.nan /\ ~b.nan /\ a.num >= b.num
ScoreEq(a, b) == ~a.nan /\ ~b.nan /\ a.num = b.num

\* the position in the input list of the item with title t
InputPos(items, t) == CHOOSE k \in 1..Len(items) : items[k].title = t

\* C13 as stated: the list _rank_items returns is in descending score order,
\* score[i] >= score[j] for all positions i < j, and of two items with equal
\* scores the one that came first in the input comes first in the output.
C13_SortedStable ==
    \A s \in Requests :
        InLog(s, << "return", "rank" >>)
        => \A i, j \in 1..Len(ranked_response[s]) :
               i < j
               => LET a == ranked_response[s][i]
                      b == ranked_response[s][j]
                  IN  /\ ScoreGeq(a.score, b.score)
                      /\ ScoreEq(a.score, b.score)
                           => InputPos(unranked_results[s], a.title)
                                < InputPos(unranked_results[s], b.title)

\* the same, for the calls in which every score is a number
C13_SortedStableRated ==
    \A s \in Requests :
        (InLog(s, << "return", "rank" >>)
           /\ \A i \in 1..Len(ranked_response[s]) :
                  ~ranked_response[s][i].score.nan)
        => \A i, j \in 1..Len(ranked_response[s]) :
               i < j
               => LET a == ranked_response[s][i]
                      b == ranked_response[s][j]
                  IN  /\ ScoreGeq(a.score, b.score)
                      /\ ScoreEq(a.score, b.score)
                           => InputPos(unranked_results[s], a.title)
                                < InputPos(unranked_results[s], b.title)


\* candidate A of the scenario: distance 0.1, rating 4.0, 50 ratings
IsScenarioA(item) ==
    /\ item.cosine_distance * 10 = DistScale
    /\ item.average_rating = 4 * RatingScale
    /\ item.rating_number = 50

\* candidate B of the scenario: distance 0.05, rating 2.0, 1 rating
IsScenarioB(item) ==
    /\ item.cosine_distance * 20 = DistScale
    /\ item.average_rating = 2 * RatingScale
    /\ item.rating_number = 1

\* C14: _rank_items with its default weights 0.7 / 0.2 / 0.1 and
\* min_ratings 1, given A and B in either order, returns [A, B]; the score
\* of A is 0.89 and is above the score of B.
C14_Scenario ==
    \A s \in Requests :
        ( /\ InLog(s, << "return", "rank" >>)
          /\ Len(unranked_results[s]) = 2
          /\ \E i, j \in 1..2 : /\ IsScenarioA(unranked_results[s][i])
                                /\ IsScenarioB(unranked_results[s][j]) )
        => /\ SimilarityWeight = 7 /\ RatingWeight = 2
           /\ PopularityWeight = 1 /\ WeightScale = 10 /\ MinRatings = 1
           /\ Len(ranked_response[s]) = 2
           /\ IsScenarioA(ranked_response[s][1])
           /\ IsScenarioB(ranked_response[s][2])
           /\ ~ranked_response[s][1].score.nan
           /\ ranked_response[s][1].score.num * 100
                = 89 * ranked_response[s][1].score.den
           /\ ScoreLess(ranked_response[s][2].score,
                        ranked_response[s][1].score)

C14_Witness ==
    \E s \in Requests :
        /\ InLog(s, << "return", "rank" >>)
        /\ Len(unranked_results[s]) = 2
        /\ IsScenarioB(unranked_results[s][1])
        /\ IsScenarioA(unranked_results[s][2])
        /\ IsScenarioA(ranked_response[s][1])
        /\ IsScenarioB(ranked_response[s][2])


\* C15: from the return of _extract_filter_from_prompt to the end of the
\* search, filter_expression stays what the extractor returned; the dict
\* search() returns, on either path, has exactly it as "filters", and the
\* RPC sent by query_postgres carries each of its keys with its value.
C15_FiltersPassedThrough ==
    [][ \A s \in Requests :
          /\ (InLog(s, << "return", "extractFilter" >>) /\ pc'[s] # "idle")
               => filter_expression'[s] = filter_expression[s]
          /\ result'[s] # None
               => /\ result'[s][1].filters = filter_expression'[s]
                  /\ pc'[s] = "done"
          /\ (InLog(s, << "call", "retrieve" >>) /\ pc'[s] # "idle")
               => /\ is_fashion_related'[s]
                  /\ \A k \in DOMAIN filter_expression'[s] :
                         /\ k \in DOMAIN rpc_params'[s]
                         /\ rpc_params'[s][k] = filter_expression'[s][k]
      ]_vars

C15_Witness ==
    \E s \in Requests :
        /\ pc[s] = "done"
        /\ is_fashion_related[s]
        /\ InLog(s, << "call", "retrieve" >>)
        /\ result[s] # None
        /\ result[s][1].filters = [category |-> "Dresses"]
        /\ rpc_params[s].category = "Dresses"


\* everything request s holds: the locals of its search() call, what it sent
\* and what it got back
Frame(s) ==
    << pc[s], prompt[s], filter_expression[s], is_fashion_related[s],
       query_embedding[s], rpc_params[s], unranked_results[s],
       ranked_response[s], rec_args[s], result[s], error[s], calls[s] >>

\* the dict a search returns is the one computed from the responses the
\* collaborators gave to that search
ResultAsAlone(s) ==
    pc[s] = "done"
    => /\ result[s] # None
       /\ IF is_fashion_related[s]
          THEN \E reply \in RecommendReplies :
                   /\ reply.ok
                   /\ "response" \in DOMAIN reply.obj
                   /\ result[s][1] =
                        CompleteResult(RankItems(unranked_results[s]).value,
                                       reply.obj.response,
                                       filter_expression[s])
          ELSE result[s][1] = OutOfDomainResult(filter_expression[s])

\* C16: in every interleaving of the requests, a step is taken by one request
\* and leaves the frame of every other request and the fields of the shared
\* SearchService as they were, and each search that returns has returned the
\* dict it would return alone with the responses it was given.
C16_NoInterference ==
    /\ [](\A s \in Requests : ResultAsAlone(s))
    /\ [][ /\ service' = service
           /\ \E t \in Requests :
                  \A s \in Requests \ {t} : Frame(s)' = Frame(s)
         ]_vars

C16_Witness ==
    \E s, t \in Requests :
        /\ s # t
        /\ pc[s] = "done"
        /\ is_fashion_related[s]
        /\ pc[t] = "recommend"
        /\ Len(ranked_response[s]) = 1
        /\ Len(ranked_response[t]) = 1
        /\ ranked_response[s] # ranked_response[t]
        /\ prompt[s] # prompt[t]


\* C18 as stated: when a candidate of a _rank_items call lacks a numeric key,
\* the call does not raise and returns, scored, exactly the candidates of
\* that call that have all their keys.
C18_Original ==
    \A s \in Requests :
        ( /\ InLog(s, << "call", "rank" >>)
          /\ \E i \in 1..Len(unranked_results[s]) :
                 ~HasKeys(unranked_results[s][i]) )
        => /\ ~InLog(s, << "raise", "rank" >>)
           /\ InLog(s, << "return", "rank" >>)
           /\ \A i \in 1..Len(unranked_results[s]) :
                  HasKeys(unranked_results[s][i])
                  <=> \E j \in 1..Len(ranked_response[s]) :
                          /\ ranked_response[s][j].title
                               = unranked_results[s][i].title
                          /\ "score" \in DOMAIN ranked_response[s][j]

\* C18: when a candidate of a _rank_items call lacks a numeric key, the call
\* raises, no candidate of that call is scored or returned, and the search
\* fails without returning a dict.
C18_MalformedAborts ==
    \A s \in Requests :
        ( /\ InLog(s, << "call", "rank" >>)
          /\ \E i \in 1..Len(unranked_results[s]) :
                 ~HasKeys(unranked_results[s][i]) )
        => /\ InLog(s, << "raise", "rank" >>)
           /\ ~InLog(s, << "return", "rank" >>)
           /\ pc[s] = "failed"
           /\ error[s] = "rank"
           /\ ranked_response[s] = << >>
           /\ result[s] = None

C18_Witness ==
    \E s \in Requests :
        /\ pc[s] = "failed"
        /\ error[s] = "rank"
        /\ \E i, j \in 1..Len(unranked_results[s]) :
               /\ ~HasKeys(unranked_results[s][i])
               /\ HasKeys(unranked_results[s][j])


\* C19 as stated: in every _rank_items call the divisor is computed from
\* max_ratings = max(largest rating count of the call, 1), so max_ratings is
\* at least 1 and log1p(max_ratings) is not zero, also for a non-empty list
\* whose rating counts are all 0.
C19_DivisorFloor ==
    \A s \in Requests :
        InLog(s, << "call", "rank" >>)
        => LET items   == unranked_results[s]
               counts  == { items[i].rating_number : i \in 1..Len(items) }
               floored == IF counts = {} \/ MaxOf(counts) < 1
                          THEN 1 ELSE MaxOf(counts)
           IN  /\ ~MaxRatings(items).raised
               /\ MaxRatings(items).value = floored
               /\ MaxRatings(items).value >= 1
               /\ Log1pMilli(MaxRatings(items).value) # 0


\* C20 as stated: every RPC that search() sends to the store carries
\* match_threshold 0.3, match_count 10 and the embedding of the prompt as
\* prompt_embedding, whatever keys and values the extracted filter has.
C20_FixedRetrieveParams ==
    \A s \in Requests :
        InLog(s, << "call", "retrieve" >>)
        => /\ rpc_params[s].match_threshold = 3
           /\ rpc_params[s].match_count = 10
           /\ rpc_params[s].prompt_embedding = query_embedding[s]


\* the titles the recommender got are those of the list search() ranked and
\* returned: one per ranked candidate, position by position
TitlesFollowRanking(s) ==
    LET args   == rec_args[s][1]
        ranked == ranked_response[s]
    IN  /\ args.prompt = prompt[s]
        /\ ranked = RankItems(unranked_results[s]).value
        /\ Len(args.item_titles) = Len(ranked)
        /\ \A i \in 1..Len(ranked) : args.item_titles[i] = ranked[i].title
        /\ (pc[s] = "done")
             => /\ result[s] # None
                /\ result[s][1].response # None
                /\ LET response == result[s][1].response[1]
                   IN  /\ Len(response) = Len(args.item_titles)
                       /\ \A i \in 1..Len(response) :
                              response[i].title = args.item_titles[i]

\* C21 as stated: the recommender is called with the query text search() was
\* given and with one title per ranked candidate, in ranked order, which is
\* score-descending (score[i] >= score[j] for the candidates behind titles
\* i < j); the titles match the returned response position by position.
C21_RecommenderInputs ==
    \A s \in Requests :
        InLog(s, << "call", "recommend" >>)
        => /\ rec_args[s] # None
           /\ TitlesFollowRanking(s)
           /\ \A i, j \in 1..Len(ranked_response[s]) :
                  i < j => ScoreGeq(ranked_response[s][i].score,
                                    ranked_response[s][j].score)

\* the same without the score order: the query text, the titles and their
\* positions
C21_TitlesAsRanked ==
    \A s \in Requests :
        InLog(s, << "call", "recommend" >>)
        => /\ rec_args[s] # None
           /\ TitlesFollowRanking(s)

\* a search that returned: the recommender had been given two or more titles
C21_Reached ==
    \E s \in Requests :
        /\ pc[s] = "done"
        /\ InLog(s, << "return", "recommend" >>)
        /\ Len(rec_args[s][1].item_titles) >= 2


\* how many positions of the list hold the candidate x (an output row counts
\* without the score field the ranker added)
Occurrences(list, x) ==
    Cardinality({ i \in 1..Len(list) : DictWithout(list[i], "score") = x })

\* C22: for well-formed input the list _rank_items returns is a permutation
\* of its input: the same length, and every input candidate exactly as often
\* in the output as in the input, candidates with a distance above 1 (a
\* negative similarity) included.
C22_RankPermutes ==
    \A s \in Requests :
        (InLog(s, << "call", "rank" >>)
           /\ \A i \in 1..Len(unranked_results[s]) :
                  HasKeys(unranked_results[s][i]))
        => /\ InLog(s, << "return", "rank" >>)
           /\ Len(ranked_response[s]) = Len(unranked_results[s])
           /\ \A i \in 1..Len(unranked_results[s]) :
                  LET x == unranked_results[s][i]
                  IN  /\ Occurrences(unranked_results[s], x) = 1
                      /\ Occurrences(ranked_response[s], x) = 1
                      /\ "score" \notin DOMAIN x

\* a ranked list of three with a candidate of negative similarity in it, not
\* in last place
C22_Witness ==
    \E s \in Requests :
        /\ InLog(s, << "return", "rank" >>)
        /\ Len(ranked_response[s]) = 3
        /\ \E i \in 1..2 : Similarity(ranked_response[s][i]) < 0
        /\ \E i \in 1..3 : Similarity(ranked_response[s][i]) >= 0

====
